---- MODULE Spec2Model ----
(***************************************************************************)
(* Job orchestration of the verification bot (src/bot.py, src/database.py):*)
(* the per-user registry active_verifications, the verification rows of    *)
(* the database, the background task run_verification with its await       *)
(* points, the scratch file temp_<user>.txt, the ledger used.txt and the   *)
(* record source data.txt.                                                 *)
(*                                                                         *)
(* Scheduling: the handlers and the tasks are coroutines of one asyncio    *)
(* event loop.  A coroutine runs until it awaits; `running` is the task    *)
(* that holds the loop between two awaits (0: the loop is free).  Updates  *)
(* are dispatched one at a time, so at most one handler is in progress;    *)
(* `handler` is its position when it is suspended in an await.             *)
(***************************************************************************)
EXTENDS Integers, Sequences, FiniteSets, TLC

\* ------------------------------------------------------------------ bounds
Users == {1, 2}
MaxVerifications == 2      \* rows of the verifications table
MaxMenus == 2              \* selection menus sent by /verify
MaxLines == 2              \* lines the verifier writes to stdout
MaxDay == 1                \* the UTC date advances at most this often
MaxRest == 2               \* units the verifier has still to write when the
                           \* task stops reading
PipeCapacity == 1          \* units an unread pipe takes before a write blocks

\* Config.MAX_USERS_PER_DAY (config.py), read at bot.py line 102
MAX_USERS_PER_DAY == 1

\* ---------------------------------------------------------------- records
\* Text is a sequence of characters, so that upper-casing and substring
\* search are computed as the code computes them.
VetA == [firstName |-> <<"J", "o">>, lastName |-> <<"S">>, branch |-> "Army",
         birthDate |-> <<"1">>, dischargeDate |-> <<"9">>]
VetB == [firstName |-> <<"o">>, lastName |-> <<"S">>, branch |-> "Navy",
         birthDate |-> <<"1">>, dischargeDate |-> <<"9">>]
Veterans == {VetA, VetB}
NoVeteran == [firstName |-> <<>>, lastName |-> <<>>, branch |-> "none",
              birthDate |-> <<>>, dischargeDate |-> <<>>]

\* str.upper() on the alphabet of the model
UpperChar(c) ==
    CASE c = "a" -> "A" [] c = "b" -> "B" [] c = "c" -> "C" [] c = "d" -> "D"
      [] c = "e" -> "E" [] c = "f" -> "F" [] c = "g" -> "G" [] c = "h" -> "H"
      [] c = "i" -> "I" [] c = "j" -> "J" [] c = "k" -> "K" [] c = "l" -> "L"
      [] c = "m" -> "M" [] c = "n" -> "N" [] c = "o" -> "O" [] c = "p" -> "P"
      [] c = "q" -> "Q" [] c = "r" -> "R" [] c = "s" -> "S" [] c = "t" -> "T"
      [] c = "u" -> "U" [] c = "v" -> "V" [] c = "w" -> "W" [] c = "x" -> "X"
      [] c = "y" -> "Y" [] c = "z" -> "Z"
      [] OTHER -> c
Upper(s) == [k \in 1..Len(s) |-> UpperChar(s[k])]

\* f"{first_name.upper()}|{last_name.upper()}|{dob}"
LedgerKey(first_name, last_name, dob) ==
    Upper(first_name) \o <<"|">> \o Upper(last_name) \o <<"|">> \o dob

\* Python's `key in line` on strings: key occurs as a contiguous substring
Contains(line, key) ==
    \E k \in 0..(Len(line) - Len(key)) :
        \A j \in 1..Len(key) : line[k + j] = key[j]

\* ------------------------------------------------- verifier output lines
\* A line of the verifier's stdout is modelled by the set of the phrases the
\* code searches for that occur in it.
M_create == "Creating verification request"
M_military == "Submitting military status"
M_personal == "Submitting personal info"
M_email == "Waiting for verification email"
LineKinds ==
    { {}, {M_create}, {"SUCCESS"}, {"FAIL"}, {"ERROR"},
      {M_email, "SUCCESS"}, {M_military, "ERROR"} }

\* ------------------------------------------------------------------ state
VARIABLES
    update_resolves,       \* whether the free name `update` of line 365 resolves
    active_verifications,  \* bot.py line 49: user_id -> entry
    verifications,         \* database table verifications, row id = index
    status_log,            \* per row: every status value written to it, in order
    tasks,                 \* per row: the run_verification task created for it
    running,               \* the task holding the event loop (0: none)
    frame,                 \* locals of the running task between two awaits
    handler,               \* the handler suspended in an await, if any
    reply,                 \* what the last handler answered
    menus,                 \* selection menus sent, message id = index
    temp_files,            \* users u for which temp_<u>.txt exists
    used_file,             \* used.txt: sequence of lines
    data_file,             \* data.txt: sequence of records
    delivered,             \* per row: message edits delivered for that job
    today,                 \* the current UTC date
    call,                  \* a function of utils.py or of the record source
                           \* called by itself: its name and arguments
    returned               \* what that call returned

vars == <<call, returned, update_resolves, active_verifications, verifications, status_log, tasks,
          running, frame, handler, reply, menus, temp_files, used_file, data_file,
          delivered, today>>

NoEntry == [status |-> "absent"]
\* output_lines: the lines read so far; updates: the labels send_update has
\* been called with; eof: the loop over process.stdout ran to the end of the
\* stream; child: the verifier process
\* cmd, stdin: the argument list and the standard input given to Popen
IdleFrame == [step |-> "idle", output_lines |-> <<>>, updates |-> <<>>,
              eof |-> FALSE, child |-> "none", cmd |-> <<>>, stdin |-> <<"none">>,
              result_text |-> "none"]
IdleHandler == [kind |-> "idle", user |-> 0, verification |-> 0]
\* a menu whose keyboard is gone: the message was edited
ClosedMenu(u) == [user |-> u, open |-> FALSE, shown |-> <<>>]
NoTask == [pc |-> "none", veteran |-> NoVeteran, wrote_scratch |-> FALSE]
NoCall == [fn |-> "none"]
NotReturned == [done |-> FALSE]
\* temp_<user_id>.txt (bot.py 418)
TempFile(user_id) == <<"temp_", user_id, ".txt">>


\* ------------------------------------------------------- ledger and store
\* a comparison of the key with the whole line as read (the line ends in "\n")
is_data_used_whole_line(first_name, last_name, dob) ==
    \E n \in 1..Len(used_file) :
        used_file[n] = LedgerKey(first_name, last_name, dob)

\* bot.py 565-575: some line of used.txt contains the key as a substring
is_data_used(first_name, last_name, dob) ==
    \E n \in 1..Len(used_file) :
        Contains(used_file[n], LedgerKey(first_name, last_name, dob))

\* used.txt opened for writing instead of appending: the key is all it holds
mark_data_used_truncating(first_name, last_name, dob) ==
    <<LedgerKey(first_name, last_name, dob) \o <<"\n">>>>

\* bot.py 577-581: append key + "\n" to used.txt
mark_data_used(first_name, last_name, dob) ==
    Append(used_file, LedgerKey(first_name, last_name, dob) \o <<"\n">>)

\* bot.py 548-563: the records of data.txt, in file order, that are not used
Unused(vet) == ~is_data_used(vet.firstName, vet.lastName, vet.birthDate)
load_veteran_data == SelectSeq(data_file, Unused)

\* --------------------------------------------------------------- database
\* database.py 104-120: insert a row, status "pending", created_at = now
create_verification(user_id, veteran) ==
    Append(verifications,
           [user_id |-> user_id, veteran |-> veteran, status |-> "pending",
            created_at |-> today])

\* database.py 122-139: set the status of the row, if the row exists
update_verification_status(rows, verification_id, status) ==
    IF verification_id \in 1..Len(rows)
    THEN [rows EXCEPT ![verification_id].status = status]
    ELSE rows

\* database.py 159-170: rows of the user created since today's midnight
get_verifications_count_today(user_id) ==
    Cardinality({n \in 1..Len(verifications) :
                    /\ verifications[n].user_id = user_id
                    /\ verifications[n].created_at >= today})

LogStatus(log, verification_id, status) ==
    [log EXCEPT ![verification_id] = Append(@, status)]

\* ------------------------------------------------------------------- Init
Init ==
    /\ call = NoCall
    /\ returned = NotReturned
    /\ update_resolves \in BOOLEAN
    /\ active_verifications = [u \in Users |-> NoEntry]
    /\ verifications = <<>>
    /\ status_log = <<>>
    /\ tasks = <<>>
    /\ running = 0
    /\ frame = IdleFrame
    /\ handler = IdleHandler
    /\ reply = "none"
    /\ menus = <<>>
    /\ temp_files = {}
    /\ used_file = <<>>
    /\ data_file = <<VetB, VetA>>
    /\ delivered = <<>>
    /\ today = 0

\* A handler is started only when no coroutine holds the loop and the
\* previous update has been handled.
CanHandle == running = 0 /\ handler = IdleHandler

\* Python's s[:n]
Take(s, n) == SubSeq(s, 1, IF Len(s) < n THEN Len(s) ELSE n)

\* ---------------------------------------------------------------- /verify
\* bot.py 96-148
verify_command(u) ==
    /\ CanHandle
    /\ IF get_verifications_count_today(u) >= MAX_USERS_PER_DAY
       THEN /\ reply' = "QuotaExceeded"
            /\ UNCHANGED menus
       ELSE IF active_verifications[u] # NoEntry
       THEN /\ reply' = "Conflict"
            /\ UNCHANGED menus
       ELSE IF load_veteran_data = <<>>
       THEN /\ reply' = "NoData"
            /\ UNCHANGED menus
       ELSE /\ Len(menus) < MaxMenus
            /\ reply' = "Menu"
            /\ menus' = Append(menus, [user |-> u, open |-> TRUE,
                                       shown |-> Take(load_veteran_data, 10)])
    /\ UNCHANGED <<call, returned, update_resolves, active_verifications, verifications, status_log,
                   tasks, running, frame, handler, temp_files, used_file, data_file,
                   delivered, today>>

\* a Cancel that also drops the registry entry of the menu's user
cancel_active_verification(m) ==
    /\ CanHandle
    /\ m \in 1..Len(menus) /\ menus[m].open
    /\ menus' = [menus EXCEPT ![m] = ClosedMenu(@.user)]
    /\ active_verifications' = [active_verifications EXCEPT ![menus[m].user] = NoEntry]
    /\ reply' = "Cancelled"
    /\ UNCHANGED <<call, returned, update_resolves, verifications, status_log,
                   tasks, running, frame, handler, temp_files, used_file, data_file,
                   delivered, today>>

\* bot.py 360-361: the Cancel button of a menu
cancel(m) ==
    /\ CanHandle
    /\ m \in 1..Len(menus) /\ menus[m].open
    /\ menus' = [menus EXCEPT ![m] = ClosedMenu(@.user)]
    /\ reply' = "Cancelled"
    /\ UNCHANGED <<call, returned, update_resolves, active_verifications, verifications, status_log,
                   tasks, running, frame, handler, temp_files, used_file, data_file,
                   delivered, today>>

\* bot.py 363-399: a select_<data_index> button of menu m, up to the await of
\* line 391.  Line 365 reads the name `update`, which is neither a parameter
\* nor bound in the module: when it does not resolve the handler raises
\* NameError before it has done anything.  When it resolves, user_id is the
\* user of the update being handled (as at line 346).
start_verification(m, data_index) ==
    /\ CanHandle
    /\ m \in 1..Len(menus) /\ menus[m].open
    /\ data_index \in 0..(Len(menus[m].shown) - 1)
    /\ LET user_id == menus[m].user
           data == load_veteran_data
       IN  IF ~update_resolves
           THEN /\ reply' = "NameError"
                /\ UNCHANGED <<active_verifications, verifications, status_log, tasks,
                               handler, menus, delivered>>
           ELSE IF data_index >= Len(data)
           THEN /\ reply' = "Invalid"
                /\ menus' = [menus EXCEPT ![m] = ClosedMenu(@.user)]
                /\ UNCHANGED <<active_verifications, verifications, status_log, tasks,
                               handler, delivered>>
           ELSE /\ Len(verifications) < MaxVerifications
                /\ active_verifications' =
                       [active_verifications EXCEPT ![user_id] =
                           [veteran |-> data[data_index + 1], message_id |-> m,
                            status |-> "starting"]]
                /\ verifications' = create_verification(user_id, data[data_index + 1])
                /\ status_log' = Append(status_log, <<"pending">>)
                /\ tasks' = Append(tasks, NoTask)
                /\ delivered' = Append(delivered, <<>>)
                /\ handler' = [kind |-> "start_await", user |-> user_id,
                               verification |-> Len(verifications) + 1]
                /\ menus' = [menus EXCEPT ![m] = ClosedMenu(@.user)]
                /\ UNCHANGED reply
    /\ UNCHANGED <<call, returned, update_resolves, running, frame, temp_files, used_file, data_file,
                   today>>

\* bot.py 391-404: the edit of line 391 returns or raises; on return the task
\* is created, on an exception the handler ends without creating it.
start_verification_resume(raises) ==
    /\ running = 0
    /\ handler.kind = "start_await"
    /\ handler' = IdleHandler
    /\ IF ~raises
       THEN /\ delivered' = [delivered EXCEPT ![handler.verification] = Append(@, "starting")]
            /\ tasks' = [tasks EXCEPT ![handler.verification].pc = "created"]
            /\ reply' = "Started"
       ELSE /\ reply' = "Raised"
            /\ UNCHANGED <<delivered, tasks>>
    /\ UNCHANGED <<call, returned, update_resolves, active_verifications, verifications, status_log,
                   running, frame, menus, temp_files, used_file, data_file, today>>

\* ------------------------------------------------------- run_verification
Owner(i) == verifications[i].user_id

\* bot.py 520-530, up to the await of line 525: the except clause of
\* run_verification, entered with the table as the try block left it.
\* It writes "failed" and, when the user has an entry, starts the edit of
\* the error message; otherwise the task ends here.
HandleException(i, rows, log) ==
    /\ verifications' = update_verification_status(rows, i, "failed")
    /\ status_log' = LogStatus(log, i, "failed")
    /\ tasks' = [tasks EXCEPT ![i].pc =
                    IF active_verifications[Owner(i)] # NoEntry
                    THEN "await_error" ELSE "done"]
    /\ running' = 0
    /\ frame' = IdleFrame

\* bot.py 532-546: the edit is attempted only when the user has an entry; its
\* text reads the entry's 'message_text', and every exception is swallowed.
\* The result is the messages delivered for the job afterwards.
send_update(i, message, raises) ==
    IF active_verifications[Owner(i)] # NoEntry
    THEN IF "message_text" \in DOMAIN active_verifications[Owner(i)] /\ ~raises
         THEN Append(delivered[i], message)
         ELSE delivered[i]
    ELSE delivered[i]

\* bot.py 406-441: the task starts and runs to the await of line 430.
\* Line 410 raises KeyError when the user has no entry; writing the scratch
\* file (420) may raise.
task_start(i, write_raises) ==
    /\ running = 0
    /\ i \in 1..Len(tasks) /\ tasks[i].pc = "created"
    /\ IF active_verifications[Owner(i)] = NoEntry
       THEN /\ ~write_raises
            /\ HandleException(i, verifications, status_log)
            /\ UNCHANGED temp_files
       ELSE IF write_raises
       THEN /\ HandleException(i, update_verification_status(verifications, i, "processing"),
                               LogStatus(status_log, i, "processing"))
            /\ UNCHANGED temp_files
       ELSE /\ verifications' = update_verification_status(verifications, i, "processing")
            /\ status_log' = LogStatus(status_log, i, "processing")
            /\ temp_files' = temp_files \cup {Owner(i)}
            /\ tasks' = [tasks EXCEPT ![i] =
                            [pc |-> "await_progress",
                             veteran |-> active_verifications[Owner(i)].veteran,
                             wrote_scratch |-> TRUE]]
            /\ UNCHANGED <<running, frame>>
    /\ UNCHANGED <<call, returned, update_resolves, active_verifications, handler, reply, menus,
                   used_file, data_file, delivered, today>>

\* An awaited edit_message_text of task i returns or raises.
\*   line 430: on return the task goes on to Popen holding the loop;
\*   line 507: on return the final message is delivered and the task ends;
\*   in both an exception enters the except clause.
\*   line 525: on return the error message is delivered and line 530 deletes
\*   the user's entry (KeyError if it is gone); an exception leaves the task.
edit_returns(i, raises) ==
    /\ running = 0
    /\ i \in 1..Len(tasks)
    /\ tasks[i].pc \in {"await_progress", "await_final", "await_error"}
    /\ IF tasks[i].pc = "await_error"
       THEN /\ tasks' = [tasks EXCEPT ![i].pc =
                            IF ~raises /\ active_verifications[Owner(i)] # NoEntry
                            THEN "done" ELSE "raised"]
            /\ delivered' = [delivered EXCEPT ![i] = IF ~raises THEN Append(@, "error") ELSE @]
            /\ active_verifications' =
                   IF ~raises THEN [active_verifications EXCEPT ![Owner(i)] = NoEntry]
                   ELSE active_verifications
            /\ UNCHANGED <<verifications, status_log, running, frame>>
       ELSE IF raises
       THEN /\ HandleException(i, verifications, status_log)
            /\ UNCHANGED <<delivered, active_verifications>>
       ELSE IF tasks[i].pc = "await_progress"
       THEN /\ delivered' = [delivered EXCEPT ![i] = Append(@, "progress")]
            /\ tasks' = [tasks EXCEPT ![i].pc = "running"]
            /\ running' = i
            /\ frame' = [IdleFrame EXCEPT !.step = "spawn"]
            /\ UNCHANGED <<verifications, status_log, active_verifications>>
       ELSE /\ delivered' = [delivered EXCEPT ![i] = Append(@, verifications[i].status)]
            /\ tasks' = [tasks EXCEPT ![i].pc = "done"]
            /\ UNCHANGED <<verifications, status_log, active_verifications, running, frame>>
    /\ UNCHANGED <<call, returned, update_resolves, handler, reply, menus, temp_files, used_file,
                   data_file, today>>

\* bot.py 423-426 and 443-450: Popen starts the verifier or raises.  The
\* argument list is cmd of line 423; no stdin is passed, so the child has the
\* bot's own standard input.
spawn(i, raises) ==
    /\ running = i /\ frame.step = "spawn"
    /\ IF ~raises
       THEN /\ frame' = [frame EXCEPT !.step = "read", !.child = "running",
                                      !.cmd = <<<<"sys.executable">>, <<"main.py">>,
                                               <<"--no-dedup">>>>,
                                      !.stdin = <<"inherited">>]
            /\ UNCHANGED <<verifications, status_log, tasks, running>>
       ELSE HandleException(i, verifications, status_log)
    /\ UNCHANGED <<call, returned, update_resolves, active_verifications, handler, reply, menus,
                   temp_files, used_file, data_file, delivered, today>>

\* bot.py 457-472: the label sent for the first milestone phrase of the
\* chain that the line contains
Milestone(line) ==
    IF M_create \in line THEN "Creating verification request..."
    ELSE IF M_military \in line THEN "Submitting military status..."
    ELSE IF M_personal \in line THEN "Submitting personal information..."
    ELSE IF M_email \in line THEN "Waiting for verification email..."
    ELSE "none"

\* bot.py 473-478: whether the line ends the loop
Breaks(line) ==
    /\ Milestone(line) = "none"
    /\ ("SUCCESS" \in line \/ "FAIL" \in line \/ "ERROR" \in line)

\* bot.py 454-478: one iteration of the loop over process.stdout: the next
\* line, the end of the stream, an exception while reading, or a verifier
\* that neither writes nor exits, so that the read never returns
read_line(i) ==
    /\ running = i /\ frame.step = "read"
    /\ \/ \E line \in LineKinds, raises \in BOOLEAN :
            /\ Len(frame.output_lines) < MaxLines
            /\ raises => Milestone(line) # "none"
            /\ frame' = [frame EXCEPT !.output_lines = Append(@, line),
                                      !.updates = IF Milestone(line) # "none"
                                                  THEN Append(@, Milestone(line))
                                                  ELSE @,
                                      !.step = IF Breaks(line) THEN "wait" ELSE "read"]
            /\ delivered' = [delivered EXCEPT ![i] =
                                IF Milestone(line) # "none"
                                THEN send_update(i, Milestone(line), raises)
                                ELSE @]
            /\ UNCHANGED <<verifications, status_log, tasks, running>>
       \/ /\ frame' = [frame EXCEPT !.step = "wait", !.eof = TRUE]
          /\ UNCHANGED <<verifications, status_log, tasks, running, delivered>>
       \/ /\ HandleException(i, verifications, status_log)
          /\ UNCHANGED delivered
       \/ /\ frame' = [frame EXCEPT !.step = "hung"]
          /\ UNCHANGED <<verifications, status_log, tasks, running, delivered>>
    /\ UNCHANGED <<call, returned, update_resolves, active_verifications, handler, reply, menus,
                   temp_files, used_file, data_file, today>>

\* bot.py 445-480: process.wait() returns when the verifier has exited.  The
\* verifier writes to two pipes (stdout and stderr, lines 446-447); the task
\* reads stderr never and stdout no more once the loop is left.  A verifier
\* that has `rest` units still to write exits when they fit into the pipe;
\* with more it blocks in its write, never exits, and wait() never returns.
\* It never returns either when the verifier does not exit of itself.
process_wait(i) ==
    /\ running = i /\ frame.step = "wait"
    /\ \/ \E rest \in 0..MaxRest :
            frame' = IF rest <= PipeCapacity
                     THEN [frame EXCEPT !.step = "check", !.child = "reaped"]
                     ELSE [frame EXCEPT !.step = "hung", !.child = "blocked"]
       \/ frame' = [frame EXCEPT !.step = "hung"]
    /\ UNCHANGED <<call, returned, update_resolves, active_verifications, verifications, status_log,
                   tasks, running, handler, reply, menus, temp_files, used_file,
                   data_file, delivered, today>>

\* an optimistic test: no line of the output holds FAIL or ERROR
OutputHasNoFailure(output_lines) ==
    \A n \in 1..Len(output_lines) :
        "FAIL" \notin output_lines[n] /\ "ERROR" \notin output_lines[n]

\* bot.py 483-484: "SUCCESS" in '\n'.join(output_lines)
OutputHasSuccess(output_lines) ==
    \E n \in 1..Len(output_lines) : "SUCCESS" \in output_lines[n]

\* bot.py 482-496
check_result(i) ==
    /\ running = i /\ frame.step = "check"
    /\ IF OutputHasSuccess(frame.output_lines)
       THEN /\ verifications' = update_verification_status(verifications, i, "success")
            /\ status_log' = LogStatus(status_log, i, "success")
            /\ used_file' = mark_data_used(tasks[i].veteran.firstName,
                                           tasks[i].veteran.lastName,
                                           tasks[i].veteran.birthDate)
            /\ frame' = [frame EXCEPT !.step = "cleanup", !.result_text = "success"]
       ELSE /\ verifications' = update_verification_status(verifications, i, "failed")
            /\ status_log' = LogStatus(status_log, i, "failed")
            /\ frame' = [frame EXCEPT !.step = "cleanup", !.result_text = "failed"]
            /\ UNCHANGED used_file
    /\ UNCHANGED <<call, returned, update_resolves, active_verifications, tasks, running, handler,
                   reply, menus, temp_files, data_file, delivered, today>>

\* a cleanup keyed by nothing: it removes every scratch file and every entry
cleanup_every_owner(i) ==
    /\ running = i /\ frame.step = "cleanup"
    /\ temp_files' = {}
    /\ active_verifications' = [u \in Users |-> NoEntry]
    /\ frame' = [frame EXCEPT !.step = "final"]
    /\ UNCHANGED <<call, returned, update_resolves, verifications, status_log, tasks, running, handler,
                   reply, menus, used_file, data_file, delivered, today>>

\* bot.py 498-504
cleanup(i) ==
    /\ running = i /\ frame.step = "cleanup"
    /\ temp_files' = temp_files \ {Owner(i)}
    /\ active_verifications' = [active_verifications EXCEPT ![Owner(i)] = NoEntry]
    /\ frame' = [frame EXCEPT !.step = "final"]
    /\ UNCHANGED <<call, returned, update_resolves, verifications, status_log, tasks, running, handler,
                   reply, menus, used_file, data_file, delivered, today>>

\* bot.py 506-518, up to the await: the arguments of the edit read
\* active_verifications[user_id]['message_id'] (509), KeyError when the user
\* has no entry
send_final(i) ==
    /\ running = i /\ frame.step = "final"
    /\ IF active_verifications[Owner(i)] = NoEntry
       THEN HandleException(i, verifications, status_log)
       ELSE /\ tasks' = [tasks EXCEPT ![i].pc = "await_final"]
            /\ running' = 0
            /\ frame' = IdleFrame
            /\ UNCHANGED <<verifications, status_log>>
    /\ UNCHANGED <<call, returned, update_resolves, active_verifications, handler, reply, menus,
                   temp_files, used_file, data_file, delivered, today>>

\* database.py 162: datetime.utcnow().date() moves on
new_day ==
    /\ today < MaxDay
    /\ today' = today + 1
    /\ UNCHANGED <<call, returned, update_resolves, active_verifications, verifications, status_log,
                   tasks, running, frame, handler, reply, menus, temp_files, used_file,
                   data_file, delivered>>

Next ==
    \/ \E u \in Users : verify_command(u)
    \/ \E m \in 1..MaxMenus : cancel(m)
    \/ \E m \in 1..MaxMenus, data_index \in 0..9 : start_verification(m, data_index)
    \/ \E raises \in BOOLEAN : start_verification_resume(raises)
    \/ \E i \in 1..MaxVerifications, raises \in BOOLEAN : task_start(i, raises)
    \/ \E i \in 1..MaxVerifications, raises \in BOOLEAN : edit_returns(i, raises)
    \/ \E i \in 1..MaxVerifications, raises \in BOOLEAN : spawn(i, raises)
    \/ \E i \in 1..MaxVerifications : read_line(i)
    \/ \E i \in 1..MaxVerifications : process_wait(i)
    \/ \E i \in 1..MaxVerifications : check_result(i)
    \/ \E i \in 1..MaxVerifications : cleanup(i)
    \/ \E i \in 1..MaxVerifications : send_final(i)
    \/ new_day

Spec == Init /\ [][Next]_vars

\* ------------------------------------------------------------ utils.py
\* Text is a sequence of characters (see LedgerKey).
Whitespace == {" ", "\t", "\n", "\r"}

\* str.lstrip(), str.rstrip() and str.strip()
RECURSIVE LStrip(_)
LStrip(s) == IF s # <<>> /\ s[1] \in Whitespace THEN LStrip(Tail(s)) ELSE s
RECURSIVE RStrip(_)
RStrip(s) ==
    IF s # <<>> /\ s[Len(s)] \in Whitespace THEN RStrip(SubSeq(s, 1, Len(s) - 1)) ELSE s
Strip(s) == RStrip(LStrip(s))

\* the index of the first occurrence of character sep in s from index k on
\* (Len(s) + 1: none)
RECURSIVE Find(_, _, _)
Find(s, sep, k) ==
    IF k > Len(s) \/ s[k] = sep THEN k ELSE Find(s, sep, k + 1)
\* str.split(sep) for a separator of one character
RECURSIVE Split(_, _)
Split(s, sep) ==
    LET first == Find(s, sep, 1)
    IN  IF first > Len(s) THEN <<s>>
        ELSE <<SubSeq(s, 1, first - 1)>> \o Split(SubSeq(s, first + 1, Len(s)), sep)

\* str.startswith(prefix)
StartsWith(s, prefix) ==
    /\ Len(prefix) <= Len(s)
    /\ SubSeq(s, 1, Len(prefix)) = prefix

\* str.replace(old, ""): the occurrences of old, found from the left and not
\* overlapping, are removed
RECURSIVE Remove(_, _)
Remove(s, old) ==
    IF Len(s) < Len(old) THEN s
    ELSE IF StartsWith(s, old) THEN Remove(SubSeq(s, Len(old) + 1, Len(s)), old)
    ELSE <<s[1]>> \o Remove(Tail(s), old)

Digits == <<"0", "1", "2", "3", "4", "5", "6", "7", "8", "9">>
IsDigit(c) == \E k \in 1..Len(Digits) : Digits[k] = c
DigitValue(c) == (CHOOSE k \in 1..Len(Digits) : Digits[k] = c) - 1
\* the number written by a sequence of digits
RECURSIVE Number(_)
Number(s) ==
    IF s = <<>> THEN 0
    ELSE 10 * Number(SubSeq(s, 1, Len(s) - 1)) + DigitValue(s[Len(s)])

\* datetime: the days of a month of the proleptic Gregorian calendar
DaysInMonth(year, month) ==
    IF month = 2
    THEN IF (year % 4 = 0 /\ year % 100 # 0) \/ year % 400 = 0 THEN 29 ELSE 28
    ELSE IF month \in {4, 6, 9, 11} THEN 30 ELSE 31

\* utils.py 88-94: datetime.strptime(date_str, "%Y-%m-%d") does not raise.
\* strptime matches the whole string against
\*   (\d\d\d\d)-(1[0-2]|0[1-9]|[1-9])-(3[01]|[12]\d|0[1-9]|[1-9]| [1-9])
\* and then builds the date, which raises for year 0 and for a day the
\* month does not have.
validate_date(date_str) ==
    LET parts == Split(date_str, "-")
        Y == parts[1]
        m == parts[2]
        d == parts[3]
    IN  /\ Len(parts) = 3
        /\ Len(Y) = 4 /\ \A k \in 1..4 : IsDigit(Y[k])
        /\ \/ Len(m) = 2 /\ m[1] = "1" /\ m[2] \in {"0", "1", "2"}
           \/ Len(m) = 2 /\ m[1] = "0" /\ IsDigit(m[2]) /\ m[2] # "0"
           \/ Len(m) = 1 /\ IsDigit(m[1]) /\ m[1] # "0"
        /\ \/ Len(d) = 2 /\ d[1] = "3" /\ d[2] \in {"0", "1"}
           \/ Len(d) = 2 /\ d[1] \in {"1", "2"} /\ IsDigit(d[2])
           \/ Len(d) = 2 /\ d[1] \in {"0", " "} /\ IsDigit(d[2]) /\ d[2] # "0"
           \/ Len(d) = 1 /\ IsDigit(d[1]) /\ d[1] # "0"
        /\ Number(Y) >= 1
        /\ Number(Strip(d)) <= DaysInMonth(Number(Y), Number(m))

\* utils.py 11-25, in the order of the dict; text is the key as characters
BRANCH_ORG_MAP ==
    <<[branch |-> "Army", id |-> 4070, name |-> "Army",
        text |-> <<"A", "r", "m", "y">>],
       [branch |-> "Air Force", id |-> 4073, name |-> "Air Force",
        text |-> <<"A", "i", "r", " ", "F", "o", "r", "c", "e">>],
       [branch |-> "Navy", id |-> 4072, name |-> "Navy",
        text |-> <<"N", "a", "v", "y">>],
       [branch |-> "Marine Corps", id |-> 4071, name |-> "Marine Corps",
        text |-> <<"M", "a", "r", "i", "n", "e", " ", "C", "o", "r", "p", "s">>],
       [branch |-> "Coast Guard", id |-> 4074, name |-> "Coast Guard",
        text |-> <<"C", "o", "a", "s", "t", " ", "G", "u", "a", "r", "d">>],
       [branch |-> "Space Force", id |-> 4544268, name |-> "Space Force",
        text |-> <<"S", "p", "a", "c", "e", " ", "F", "o", "r", "c", "e">>],
       [branch |-> "Army National Guard", id |-> 4075, name |-> "Army National Guard",
        text |-> <<"A", "r", "m", "y", " ", "N", "a", "t", "i", "o", "n", "a", "l", " ", "G", "u", "a", "r", "d">>],
       [branch |-> "Army Reserve", id |-> 4076, name |-> "Army Reserve",
        text |-> <<"A", "r", "m", "y", " ", "R", "e", "s", "e", "r", "v", "e">>],
       [branch |-> "Air National Guard", id |-> 4079, name |-> "Air National Guard",
        text |-> <<"A", "i", "r", " ", "N", "a", "t", "i", "o", "n", "a", "l", " ", "G", "u", "a", "r", "d">>],
       [branch |-> "Air Force Reserve", id |-> 4080, name |-> "Air Force Reserve",
        text |-> <<"A", "i", "r", " ", "F", "o", "r", "c", "e", " ", "R", "e", "s", "e", "r", "v", "e">>],
       [branch |-> "Navy Reserve", id |-> 4078, name |-> "Navy Reserve",
        text |-> <<"N", "a", "v", "y", " ", "R", "e", "s", "e", "r", "v", "e">>],
       [branch |-> "Marine Corps Reserve", id |-> 4077, name |-> "Marine Corps Forces Reserve",
        text |-> <<"M", "a", "r", "i", "n", "e", " ", "C", "o", "r", "p", "s", " ", "R", "e", "s", "e", "r", "v", "e">>],
       [branch |-> "Coast Guard Reserve", id |-> 4081, name |-> "Coast Guard Reserve",
        text |-> <<"C", "o", "a", "s", "t", " ", "G", "u", "a", "r", "d", " ", "R", "e", "s", "e", "r", "v", "e">>]>>

\* the entry BRANCH_ORG_MAP[branch]
Organization(branch) ==
    LET e == CHOOSE k \in 1..Len(BRANCH_ORG_MAP) : BRANCH_ORG_MAP[k].branch = branch
    IN  [id |-> BRANCH_ORG_MAP[e].id, name |-> BRANCH_ORG_MAP[e].name]

\* utils.py 51-85
match_branch(input_str) ==
    LET normalized == Strip(Remove(Upper(input_str), <<"U", "S", " ">>))
        exact == {k \in 1..Len(BRANCH_ORG_MAP) : Upper(BRANCH_ORG_MAP[k].text) = normalized}
        has(word) == Contains(normalized, word)
        MARINE == <<"M", "A", "R", "I", "N", "E">>
        RESERVE == <<"R", "E", "S", "E", "R", "V", "E">>
        ARMY == <<"A", "R", "M", "Y">>
        NATIONAL == <<"N", "A", "T", "I", "O", "N", "A", "L">>
        NAVY == <<"N", "A", "V", "Y">>
        AIR == <<"A", "I", "R">>
        COAST == <<"C", "O", "A", "S", "T">>
        SPACE == <<"S", "P", "A", "C", "E">>
    IN  IF exact # {}
        THEN BRANCH_ORG_MAP[CHOOSE k \in exact : \A j \in exact : k <= j].branch
        ELSE IF has(MARINE) /\ ~has(RESERVE) THEN "Marine Corps"
        ELSE IF has(ARMY) /\ has(NATIONAL) THEN "Army National Guard"
        ELSE IF has(ARMY) /\ has(RESERVE) THEN "Army Reserve"
        ELSE IF has(ARMY) THEN "Army"
        ELSE IF has(NAVY) /\ has(RESERVE) THEN "Navy Reserve"
        ELSE IF has(NAVY) THEN "Navy"
        ELSE IF has(AIR) /\ has(NATIONAL) THEN "Air National Guard"
        ELSE IF has(AIR) /\ has(RESERVE) THEN "Air Force Reserve"
        ELSE IF has(AIR) THEN "Air Force"
        ELSE IF has(COAST) /\ has(RESERVE) THEN "Coast Guard Reserve"
        ELSE IF has(COAST) THEN "Coast Guard"
        ELSE IF has(SPACE) THEN "Space Force"
        ELSE "Army"

\* utils.py 28-48; the result is <<>> for None and <<record>> for a record
parse_veteran_line(line) ==
    LET split == Split(line, "|")
        parts == [k \in 1..Len(split) |-> Strip(split[k])]
    IN  IF Len(parts) < 4 THEN <<>>
        ELSE IF ~validate_date(parts[4]) \/ (Len(parts) > 4 /\ ~validate_date(parts[5]))
        THEN <<>>
        ELSE <<[firstName |-> parts[1],
                lastName |-> parts[2],
                branch |-> match_branch(parts[3]),
                birthDate |-> parts[4],
                dischargeDate |-> IF Len(parts) > 4 THEN parts[5]
                                  ELSE <<"2", "0", "2", "5", "-", "0", "1", "-", "0", "1">>,
                organization |-> Organization(match_branch(parts[3]))]>>

\* -------------------------------------------- ledger and store by themselves
\* The functions of the ledger and of the record store (bot.py 548-581)
\* applied to the records data.txt may hold and to any order of marking.
MaxRecords == 2            \* records in data.txt
MaxMarks == 2              \* calls of mark_data_used

\* VetC has the key of VetA in another letter case, with another branch and
\* discharge date; VetD differs from VetB in the date of birth only.
VetC == [firstName |-> <<"j", "o">>, lastName |-> <<"s">>, branch |-> "Navy",
         birthDate |-> <<"1">>, dischargeDate |-> <<"8">>]
VetD == [firstName |-> <<"o">>, lastName |-> <<"S">>, branch |-> "Army",
         birthDate |-> <<"2">>, dischargeDate |-> <<"9">>]
StoreRecords == {VetA, VetB, VetC, VetD}

LedgerInit ==
    /\ data_file \in UNION {[1..n -> StoreRecords] : n \in 0..MaxRecords}
    /\ used_file = <<>>
    /\ call = NoCall
    /\ returned = NotReturned
    /\ update_resolves = TRUE
    /\ active_verifications = [u \in Users |-> NoEntry]
    /\ verifications = <<>>
    /\ status_log = <<>>
    /\ tasks = <<>>
    /\ running = 0
    /\ frame = IdleFrame
    /\ handler = IdleHandler
    /\ reply = "none"
    /\ menus = <<>>
    /\ temp_files = {}
    /\ delivered = <<>>
    /\ today = 0

\* bot.py 577-581 called with the fields of a record, as at lines 489-493
ledger_mark(vet) ==
    /\ Len(used_file) < MaxMarks
    /\ used_file' = mark_data_used(vet.firstName, vet.lastName, vet.birthDate)
    /\ UNCHANGED <<call, returned, update_resolves, active_verifications, verifications, status_log,
                   tasks, running, frame, handler, reply, menus, temp_files,
                   data_file, delivered, today>>

LedgerNext == \E vet \in StoreRecords : ledger_mark(vet)

LedgerSpec == LedgerInit /\ [][LedgerNext]_vars

\* ----------------------------------------------- the functions by themselves
\* parse_veteran_line, match_branch and add_veteran_data_from_text applied to
\* inputs drawn from the sets below.  Here data_file is data.txt as text, the
\* characters of the file; it is written by add_veteran_data_from_text only,
\* the one writer of the file (bot.py 611), so it holds lines that function
\* wrote.
MaxStored == 2             \* lines in data.txt when text is added
MaxTextLines == 2          \* lines of an added text

\* str.join
RECURSIVE Join(_, _)
Join(parts, sep) ==
    IF parts = <<>> THEN <<>>
    ELSE IF Len(parts) = 1 THEN parts[1]
    ELSE parts[1] \o sep \o Join(Tail(parts), sep)

\* the dates tried: 2020-01-05, 2020-1-5, 2020-02-29, 2019-02-29,
\* 2020-04-31, 2020-13-01, 20-01-05, 2020/01/05 and the empty string
DateInputs ==
    { <<"2", "0", "2", "0", "-", "0", "1", "-", "0", "5">>,
      <<"2", "0", "2", "0", "-", "1", "-", "5">>,
      <<"2", "0", "2", "0", "-", "0", "2", "-", "2", "9">>,
      <<"2", "0", "1", "9", "-", "0", "2", "-", "2", "9">>,
      <<"2", "0", "2", "0", "-", "0", "4", "-", "3", "1">>,
      <<"2", "0", "2", "0", "-", "1", "3", "-", "0", "1">>,
      <<"2", "0", "-", "0", "1", "-", "0", "5">>,
      <<"2", "0", "2", "0", "/", "0", "1", "/", "0", "5">>,
      <<>> }
NameInputs == {<<"A">>, <<" ", "b", " ">>}
\* the branch fields tried
BranchInputs ==
    { <<"A", "r", "m", "y">>,
      <<"a", "r", "m", "y">>,
      <<"U", "S", " ", "A", "r", "m", "y">>,
      <<"u", "s", " ", "a", "r", "m", "y", " ", "n", "a", "t", "i", "o", "n", "a", "l", " ", "g", "u", "a", "r", "d">>,
      <<"U", "S", " ", "A", "R", "M", "Y", " ", "N", "A", "T", "I", "O", "N", "A", "L", " ", "G", "U", "A", "R", "D">>,
      <<"A", "r", "m", "y", " ", "R", "e", "s", "e", "r", "v", "e">>,
      <<"a", "r", "m", "y", " ", "r", "e", "s", "e", "r", "v", "e", "s">>,
      <<"n", "a", "v", "y", " ", "r", "e", "s", "e", "r", "v", "e">>,
      <<" ", " ", "N", "a", "v", "y", " ", " ">>,
      <<"A", "i", "r", " ", "F", "o", "r", "c", "e">>,
      <<"a", "i", "r", " ", "f", "o", "r", "c", "e", " ", "r", "e", "s", "e", "r", "v", "e", " ", "u", "n", "i", "t">>,
      <<"A", "i", "r", " ", "N", "a", "t", "i", "o", "n", "a", "l", " ", "G", "u", "a", "r", "d">>,
      <<"a", "i", "r", " ", "n", "a", "t", "i", "o", "n", "a", "l">>,
      <<"M", "a", "r", "i", "n", "e", " ", "C", "o", "r", "p", "s">>,
      <<"m", "a", "r", "i", "n", "e", "s">>,
      <<"M", "a", "r", "i", "n", "e", " ", "C", "o", "r", "p", "s", " ", "R", "e", "s", "e", "r", "v", "e">>,
      <<"m", "a", "r", "i", "n", "e", " ", "c", "o", "r", "p", "s", " ", "r", "e", "s", "e", "r", "v", "e", "s">>,
      <<"C", "o", "a", "s", "t", " ", "G", "u", "a", "r", "d">>,
      <<"c", "o", "a", "s", "t", " ", "g", "u", "a", "r", "d", " ", "r", "e", "s", "e", "r", "v", "e", "s">>,
      <<"S", "p", "a", "c", "e", " ", "F", "o", "r", "c", "e">>,
      <<"x", "y", "z">>,
      <<>> }
BranchFieldInputs == {<<"A", "r", "m", "y">>, <<"u", "s", " ", "n", "a", "v", "y">>}
\* lines of one to six fields
LineInputs ==
    LET fields ==
            {<<f>> : f \in NameInputs}
            \cup {<<f, f, b>> : f \in NameInputs, b \in BranchFieldInputs}
            \cup {<<f, <<"B">>, b, d>> : f \in NameInputs, b \in BranchFieldInputs,
                                        d \in DateInputs}
            \cup {<<<<"A">>, f, b, d, e>> : f \in NameInputs, b \in BranchFieldInputs,
                                           d \in DateInputs, e \in DateInputs}
            \cup {<<f, f, b, d, d, <<"x">>>> : f \in NameInputs, b \in BranchFieldInputs,
                                              d \in DateInputs}
    IN  {Join(x, <<"|">>) : x \in fields}
\* the lines an added text is made of: a record, a record with blanks
\* around its fields, a line with an invalid date, a comment and a blank line
TextLineInputs ==
    { <<"A", "|", "B", "|", "A", "r", "m", "y", "|", "2", "0", "2", "0", "-", "0", "1", "-", "0", "5">>,
      <<" ", "c", " ", "|", " ", "d", " ", "|", "n", "a", "v", "y", "|", "2", "0", "1", "9", "-", "0", "2", "-", "2", "8", "|", "2", "0", "2", "0", "-", "0", "2", "-", "2", "9", " ">>,
      <<"A", "|", "B", "|", "A", "r", "m", "y", "|", "2", "0", "2", "0", "-", "0", "4", "-", "3", "1">>,
      <<"#", "x", "|", "y", "|", "A", "r", "m", "y", "|", "2", "0", "2", "0", "-", "0", "1", "-", "0", "5">>,
      <<>> }
TextInputs ==
    {Join(x, <<"\n">>) : x \in UNION {[1..n -> TextLineInputs] : n \in 1..MaxTextLines}}

\* what data.txt holds when text is added: up to MaxStored lines, each a
\* stripped line that parses followed by a newline, as line 618 writes them
StoredLineInputs ==
    { <<"A", "|", "B", "|", "A", "r", "m", "y", "|", "2", "0", "2", "0", "-", "0", "1", "-", "0", "5">>,
      <<"c", " ", "|", " ", "d", " ", "|", "n", "a", "v", "y", "|", "2", "0", "1", "9", "-", "0", "2", "-", "2", "8", "|", "2", "0", "2", "0", "-", "0", "2", "-", "2", "9">> }
StoredFileInputs ==
    {<<>>} \cup {Join(x, <<"\n">>) \o <<"\n">> :
                    x \in UNION {[1..n -> StoredLineInputs] : n \in 1..MaxStored}}

\* bot.py 609-618: the loop over the lines; acc is the file and the count
RECURSIVE write_lines(_, _)
write_lines(lines, acc) ==
    IF lines = <<>> THEN acc
    ELSE LET line == Strip(Head(lines))
         IN  write_lines(Tail(lines),
                         IF /\ line # <<>>
                            /\ ~StartsWith(line, <<"#">>)
                            /\ parse_veteran_line(line) # <<>>
                         THEN [file |-> acc.file \o line \o <<"\n">>,
                               added |-> acc.added + 1]
                         ELSE acc)

\* a loop that ends at the first line that is not added
RECURSIVE write_lines_until_rejected(_, _)
write_lines_until_rejected(lines, acc) ==
    IF lines = <<>> THEN acc
    ELSE LET line == Strip(Head(lines))
         IN  IF /\ line # <<>>
                /\ ~StartsWith(line, <<"#">>)
                /\ parse_veteran_line(line) # <<>>
             THEN write_lines_until_rejected(Tail(lines),
                      [file |-> acc.file \o line \o <<"\n">>, added |-> acc.added + 1])
             ELSE acc
add_veteran_data_until_rejected(file, text) ==
    write_lines_until_rejected(Split(Strip(text), "\n"), [file |-> file, added |-> 0])

\* bot.py 606-620: the file afterwards and the count returned
add_veteran_data_from_text(file, text) ==
    write_lines(Split(Strip(text), "\n"), [file |-> file, added |-> 0])

UtilsInit ==
    /\ call = NoCall
    /\ returned = NotReturned
    /\ data_file \in StoredFileInputs
    /\ used_file = <<>>
    /\ update_resolves = TRUE
    /\ active_verifications = [u \in Users |-> NoEntry]
    /\ verifications = <<>>
    /\ status_log = <<>>
    /\ tasks = <<>>
    /\ running = 0
    /\ frame = IdleFrame
    /\ handler = IdleHandler
    /\ reply = "none"
    /\ menus = <<>>
    /\ temp_files = {}
    /\ delivered = <<>>
    /\ today = 0

\* parse_veteran_line and match_branch have no state: one call each run
call_parse_veteran_line(line) ==
    /\ call = NoCall
    /\ call' = [fn |-> "parse_veteran_line", arg |-> line]
    /\ returned' = [done |-> TRUE, value |-> parse_veteran_line(line)]
    /\ UNCHANGED <<update_resolves, active_verifications, verifications, status_log,
                   tasks, running, frame, handler, reply, menus, temp_files, used_file,
                   data_file, delivered, today>>

call_match_branch(input_str) ==
    /\ call = NoCall
    /\ call' = [fn |-> "match_branch", arg |-> input_str]
    /\ returned' = [done |-> TRUE, value |-> match_branch(input_str)]
    /\ UNCHANGED <<update_resolves, active_verifications, verifications, status_log,
                   tasks, running, frame, handler, reply, menus, temp_files, used_file,
                   data_file, delivered, today>>

\* add_veteran_data_from_text is called with a text on the file
call_add_veteran_data_from_text(text) ==
    /\ call = NoCall
    /\ LET result == add_veteran_data_from_text(data_file, text)
       IN  /\ call' = [fn |-> "add_veteran_data_from_text", arg |-> text]
           /\ returned' = [done |-> TRUE, value |-> result.added]
           /\ data_file' = result.file
    /\ UNCHANGED <<update_resolves, active_verifications, verifications, status_log,
                   tasks, running, frame, handler, reply, menus, temp_files, used_file,
                   delivered, today>>

UtilsNext ==
    \/ \E line \in LineInputs : call_parse_veteran_line(line)
    \/ \E input_str \in BranchInputs : call_match_branch(input_str)
    \/ \E text \in TextInputs : call_add_veteran_data_from_text(text)

UtilsSpec == UtilsInit /\ [][UtilsNext]_vars

\* ================================================================= claims
Jobs == 1..Len(verifications)
\* the task of job i has ended: it returned or an exception left it
Ended(i) == tasks[i].pc \in {"done", "raised"}
\* job i exists and has not ended (its task may not have been created yet)
InFlight(i) == ~Ended(i)
\* no other job of the owner of job i is in flight
Alone(i) == \A j \in Jobs : (j # i /\ Owner(j) = Owner(i)) => Ended(j)
\* the line written by mark_data_used for the record is in used.txt
KeyInLedger(vet) ==
    \E n \in 1..Len(used_file) :
        used_file[n] = LedgerKey(vet.firstName, vet.lastName, vet.birthDate) \o <<"\n">>
Markers == {"SUCCESS", "FAIL", "ERROR"}
HasMarker(line) == line \cap Markers # {}
\* index of the first line of the stream that contains a marker (0: none)
FirstMarker(lines) ==
    IF \E n \in 1..Len(lines) : HasMarker(lines[n])
    THEN CHOOSE n \in 1..Len(lines) :
            /\ HasMarker(lines[n])
            /\ \A k \in 1..(n - 1) : ~HasMarker(lines[k])
    ELSE 0

\* C1: single-flight.  For an owner who has an entry in the registry, no
\* step (of /verify or of a record selection) creates a verification row
\* for that owner or replaces the owner's entry by another one.
C1_SingleFlight ==
    [][\A u \in Users :
          active_verifications[u] # NoEntry =>
             /\ active_verifications'[u] \in {active_verifications[u], NoEntry}
             /\ \A i \in (Len(verifications) + 1)..Len(verifications') :
                   verifications'[i].user_id # u]_vars

\* C2: registry release.  When a job has ended (verdict or exception, also
\* when its final notification failed) and the owner has no other job in
\* flight, the owner has no registry entry.
C2_RegistryReleased ==
    \A i \in Jobs :
        (Ended(i) /\ Alone(i)) => active_verifications[Owner(i)] = NoEntry

\* C3: successful submission.  A selection of a valid index by an owner
\* without an entry creates one entry holding the selected record and one
\* pending row and leaves the handler at its await without having run the
\* job; when that await is over exactly the task of this row is created.
C3_SubmissionCreatesJob ==
    [][/\ \A m \in 1..Len(menus), data_index \in 0..9 :
            ( /\ data_index < Len(load_veteran_data)
              /\ active_verifications[menus[m].user] = NoEntry
              /\ start_verification(m, data_index) )
            => /\ active_verifications'[menus[m].user] # NoEntry
               /\ active_verifications'[menus[m].user].veteran =
                      load_veteran_data[data_index + 1]
               /\ Len(verifications') = Len(verifications) + 1
               /\ verifications'[Len(verifications')].user_id = menus[m].user
               /\ verifications'[Len(verifications')].status = "pending"
               /\ handler'.kind = "start_await"
               /\ tasks'[Len(verifications')].pc = "none"
       /\ \A raises \in BOOLEAN :
            start_verification_resume(raises) =>
               tasks'[handler.verification].pc = "created"]_vars

\* C4: ledger/outcome.  The key of a record is in the ledger iff some job
\* run for that record reached status success; a job that has ended with
\* status failed has not left its key in the ledger, a job that has ended
\* with status success has.  (Stated for the record the task ran with, and
\* in its second part for the only job of the table, so that no other job
\* accounts for the key.)
C4_LedgerIffSucceeded ==
    /\ \A vet \in Veterans :
          KeyInLedger(vet) <=>
             \E i \in Jobs : /\ tasks[i].veteran = vet
                             /\ \E n \in 1..Len(status_log[i]) : status_log[i][n] = "success"
    /\ \A i \in Jobs :
          (Ended(i) /\ Jobs = {i}) =>
             /\ verifications[i].status = "failed" => ~KeyInLedger(verifications[i].veteran)
             /\ verifications[i].status = "success" => KeyInLedger(verifications[i].veteran)

\* order of the statuses of a row
StatusRank(st) == CASE st = "pending" -> 0 [] st = "processing" -> 1 [] OTHER -> 2
\* C5: monotonic status.  The statuses written to a row never move backward
\* in pending < processing < {success, failed}, and after a terminal status
\* no different status is written.
C5_MonotonicStatus ==
    \A i \in Jobs :
        \A n \in 1..(Len(status_log[i]) - 1) :
            /\ StatusRank(status_log[i][n]) <= StatusRank(status_log[i][n + 1])
            /\ status_log[i][n] \in {"success", "failed"}
                  => status_log[i][n + 1] = status_log[i][n]

\* C6: release on exception.  When a job that wrote its scratch file has
\* ended, and the owner has no other job in flight, the scratch file does
\* not exist and the owner has no registry entry.
C6_ReleasedAfterException ==
    \A i \in Jobs :
        (Ended(i) /\ tasks[i].wrote_scratch /\ Alone(i))
           => /\ Owner(i) \notin temp_files
              /\ active_verifications[Owner(i)] = NoEntry

\* number of result messages delivered for job i
FinalMessages(i) ==
    Cardinality({n \in 1..Len(delivered[i]) : delivered[i][n] \in {"success", "failed", "error"}})
\* C7: exactly one final message.  A job whose task has returned (no
\* delivery failed at its end) has delivered exactly one result message.
\* (Stated for the only job of the table: no other job touches its entry.)
C7_OneFinalMessage ==
    \A i \in Jobs : (tasks[i].pc = "done" /\ Jobs = {i}) => FinalMessages(i) = 1

\* C8: daily quota.  A row is created for an owner only when the owner's
\* count for today is below the limit, and no owner ever has more rows
\* created today than the limit.
C8_DailyQuota ==
    [][/\ \A i \in (Len(verifications) + 1)..Len(verifications') :
             get_verifications_count_today(verifications'[i].user_id) < MAX_USERS_PER_DAY
       /\ \A u \in Users :
             Cardinality({i \in 1..Len(verifications') :
                             /\ verifications'[i].user_id = u
                             /\ verifications'[i].created_at = today'}) <= MAX_USERS_PER_DAY]_vars

\* C9: first marker wins.  When the result has been decided for a stream
\* with a marker, the first line containing a marker is the last line
\* consumed, and the result is success if that line contains SUCCESS and
\* failed otherwise.
C9_FirstMarkerWins ==
    (frame.step = "cleanup" /\ FirstMarker(frame.output_lines) # 0)
       => /\ Len(frame.output_lines) = FirstMarker(frame.output_lines)
          /\ frame.result_text =
                IF "SUCCESS" \in frame.output_lines[FirstMarker(frame.output_lines)]
                THEN "success" ELSE "failed"

\* the last consumed line ended the loop and holds no SUCCESS
StoppedByFailure(lines) ==
    /\ lines # <<>>
    /\ Breaks(lines[Len(lines)])
    /\ "SUCCESS" \notin lines[Len(lines)]
\* C10: ledger untouched on failure.  used.txt changes only in the result
\* step of a job whose stream was neither stopped by a line with FAIL or
\* ERROR (and without SUCCESS) nor exhausted without any marker; no step of
\* a job that raised changes it.
C10_LedgerUntouchedOnFailure ==
    [][used_file' # used_file =>
          /\ frame.step = "check"
          /\ ~StoppedByFailure(frame.output_lines)
          /\ FirstMarker(frame.output_lines) # 0]_vars

\* C11: best-effort notification.  Whether the awaited edit of the progress
\* message (line 430) or of the final message (line 507) returns or raises,
\* the step leaves the row's status as it was, the task goes on to spawn the
\* verifier after the former and ends after the latter; a milestone line
\* leaves the status alone and the loop goes on reading.
C11_NotificationBestEffort ==
    [][\A i \in Jobs :
          /\ (tasks[i].pc = "await_progress" /\ tasks'[i].pc # "await_progress")
                => /\ verifications'[i].status = verifications[i].status
                   /\ tasks'[i].pc = "running"
                   /\ running' = i /\ frame'.step = "spawn"
          /\ (tasks[i].pc = "await_final" /\ tasks'[i].pc # "await_final")
                => /\ verifications'[i].status = verifications[i].status
                   /\ tasks'[i].pc = "done"
          /\ (running = i /\ frame.step = "read" /\ frame'.updates # frame.updates)
                => /\ verifications'[i].status = verifications[i].status
                   /\ frame'.step = "read"]_vars

\* the steps of the task of job i
JobStep(i) ==
    \/ \E raises \in BOOLEAN : task_start(i, raises)
    \/ \E raises \in BOOLEAN : edit_returns(i, raises)
    \/ \E raises \in BOOLEAN : spawn(i, raises)
    \/ read_line(i)
    \/ process_wait(i)
    \/ check_result(i)
    \/ cleanup(i)
    \/ send_final(i)
\* C12: non-blocking execution.  While the task of a job waits for the next
\* line of its verifier or for the verifier to exit, /verify can be handled
\* for every user, and every other job whose task is ready to start or whose
\* awaited edit is over can take its step.
C12_NonBlocking ==
    \A i \in Jobs :
        (running = i /\ frame.step \in {"read", "wait"})
           => /\ \A u \in Users :
                    get_verifications_count_today(u) >= MAX_USERS_PER_DAY
                       => ENABLED verify_command(u)
              /\ \A j \in Jobs \ {i} :
                    tasks[j].pc \in {"created", "await_progress", "await_final",
                                     "await_error"}
                       => ENABLED JobStep(j)

\* C13: bounded run.  When the verifier of a job hangs (the read of its
\* output or the wait for its exit never returns), a step of the job is
\* still possible: one that terminates it.
C13_BoundedRun ==
    \A i \in Jobs :
        (running = i /\ frame.step = "hung") => ENABLED JobStep(i)

\* a step leaves what the engine holds for owner u as it was: the registry
\* entry, the scratch file, and the rows, status histories and delivered
\* messages of the owner's jobs
OwnerUntouched(u) ==
    /\ active_verifications'[u] = active_verifications[u]
    /\ (u \in temp_files') = (u \in temp_files)
    /\ \A k \in 1..Len(verifications') : verifications'[k].user_id = u => k \in Jobs
    /\ \A j \in Jobs :
          Owner(j) = u => /\ verifications'[j] = verifications[j]
                          /\ status_log'[j] = status_log[j]
                          /\ delivered'[j] = delivered[j]
\* C14: owner isolation.  A step of the task of job i (the task holds the
\* loop, or its position changes) leaves the registry entry, the scratch
\* file, the rows with their status and the delivered messages of every
\* other owner as they were; no step at all changes the state of two owners;
\* and the status a job's result step writes is the verdict of the output
\* that job read.
C14_OwnerIsolation ==
    [][/\ \A i \in Jobs :
             (running = i \/ tasks'[i] # tasks[i]) =>
                /\ \A u \in Users \ {Owner(i)} : OwnerUntouched(u)
                /\ (frame.step = "check" /\ frame'.step = "cleanup") =>
                      verifications'[i].status =
                         IF OutputHasSuccess(frame.output_lines)
                         THEN "success" ELSE "failed"
       /\ \A u, v \in Users :
             u # v => (OwnerUntouched(u) \/ OwnerUntouched(v))]_vars
\* two owners have a job in flight each; one job has just cleaned up while
\* the other, suspended at its progress edit, still has entry and scratch file
C14_Witness ==
    \E i, j \in Jobs :
        /\ Owner(i) # Owner(j)
        /\ running = i /\ frame.step = "final"
        /\ tasks[j].pc = "await_progress"
        /\ Owner(j) \in temp_files
        /\ active_verifications[Owner(j)] # NoEntry

\* C15: ledger round-trip.  For every record key, is_data_used is true
\* exactly when mark_data_used has been called for that key: false as long
\* as it has not (whatever other keys have been marked), true afterwards.
C15_LedgerRoundTrip ==
    \A vet \in StoreRecords :
        is_data_used(vet.firstName, vet.lastName, vet.birthDate) <=> KeyInLedger(vet)

\* the first sequence is the second with some elements left out, order kept
InSourceOrder(sub, source) ==
    \E f \in [1..Len(sub) -> 1..Len(source)] :
        /\ \A k \in 1..Len(sub) : sub[k] = source[f[k]]
        /\ \A k \in 1..(Len(sub) - 1) : f[k] < f[k + 1]
\* C16: the store excludes consumed records.  Once mark_data_used has been
\* called with the fields of a record, load_veteran_data holds no record
\* with the same ledger key, whatever the case of its names, its branch or
\* its discharge date; and what load_veteran_data holds is data.txt with
\* records left out, in the order of the file.
C16_StoreExcludesConsumed ==
    /\ \A vet \in StoreRecords :
          KeyInLedger(vet) =>
             \A k \in 1..Len(load_veteran_data) :
                 LedgerKey(load_veteran_data[k].firstName, load_veteran_data[k].lastName,
                           load_veteran_data[k].birthDate)
                    # LedgerKey(vet.firstName, vet.lastName, vet.birthDate)
    /\ InSourceOrder(load_veteran_data, data_file)
\* data.txt holds VetC and then VetD, VetA's key has been marked (the key of
\* VetC in another case), and VetD is what is left
C16_Witness ==
    /\ data_file = <<VetC, VetD>>
    /\ KeyInLedger(VetA)
    /\ load_veteran_data = <<VetD>>

\* job i has written status success
Succeeded(i) == \E n \in 1..Len(status_log[i]) : status_log[i][n] = "success"
\* C17: append-only ledger without lost updates.  Every step leaves the
\* lines of used.txt in place and in order; when used.txt changes, exactly
\* one line has been added at its end, the key of the record of the job
\* taking the step; and after every step used.txt holds the intact line of
\* every job that has succeeded, and as many lines as jobs have succeeded.
C17_AppendOnlyLedger ==
    [][/\ Len(used_file') >= Len(used_file)
       /\ SubSeq(used_file', 1, Len(used_file)) = used_file
       /\ used_file' # used_file =>
             \E i \in Jobs :
                /\ running = i
                /\ used_file' = Append(used_file,
                                       LedgerKey(tasks[i].veteran.firstName,
                                                 tasks[i].veteran.lastName,
                                                 tasks[i].veteran.birthDate) \o <<"\n">>)
       /\ \A i \in Jobs : Succeeded(i)' => KeyInLedger(tasks[i].veteran)'
       /\ Len(used_file') = Cardinality({i \in Jobs : Succeeded(i)'})]_vars
\* a job has just written its success while a job submitted after it has
\* already succeeded: the two ran interleaved, and used.txt has two lines
C17_Witness ==
    \E i, j \in Jobs :
        /\ i < j
        /\ Succeeded(j)
        /\ running = i /\ frame.step = "cleanup" /\ frame.result_text = "success"
        /\ Len(used_file) = 2

\* C18: ordered milestone log.  When the loop has read a line with a
\* milestone phrase and the delivery of the update did not fail, the label
\* of the line has been added, after the earlier ones, to the messages
\* delivered for the job.
C18_OrderedMilestones ==
    [][\A i \in Jobs :
          ( /\ running = i /\ frame.step = "read"
            /\ Len(frame'.updates) = Len(frame.updates) + 1
            /\ delivered'[i] = send_update(i, frame'.updates[Len(frame'.updates)], FALSE) )
          => delivered'[i] = Append(delivered[i], frame'.updates[Len(frame'.updates)])]_vars

\* the loop was left by a break: the last line read is a marker line
StoppedOnMarker ==
    /\ ~frame.eof
    /\ frame.output_lines # <<>>
    /\ Breaks(frame.output_lines[Len(frame.output_lines)])
\* C19: verdict before process exit.  When the loop has stopped on a marker
\* line, the result step (status update, ledger write on success) is taken
\* while the child has not been waited for; it is reaped afterwards.
C19_VerdictBeforeExit ==
    [][(frame.step = "check" /\ frame'.step = "cleanup" /\ StoppedOnMarker)
          => frame.child = "running"]_vars

MilestonePhrases == {M_create, M_military, M_personal, M_email}
HasMilestone(line) == line \cap MilestonePhrases # {}
\* C20: pessimistic default.  When the result has been decided for a stream
\* none of whose lines holds SUCCESS, FAIL or ERROR, the result and the
\* row's status are failed, send_update has been called once for each line
\* with a milestone phrase, with that line's label and in stream order, and
\* the loop ran to the end of the stream.
C20_PessimisticDefault ==
    \A i \in Jobs :
        ( /\ running = i /\ frame.step = "cleanup"
          /\ \A n \in 1..Len(frame.output_lines) : ~HasMarker(frame.output_lines[n]) )
        => /\ frame.result_text = "failed"
           /\ verifications[i].status = "failed"
           /\ Len(frame.updates) = Len(SelectSeq(frame.output_lines, HasMilestone))
           /\ \A k \in 1..Len(frame.updates) :
                 frame.updates[k] =
                    Milestone(SelectSeq(frame.output_lines, HasMilestone)[k])
           /\ frame.eof
\* the result has been decided for a stream of two lines without marker, a
\* milestone line among them
C20_Witness ==
    \E i \in Jobs :
        /\ running = i /\ frame.step = "cleanup"
        /\ Len(frame.output_lines) = 2
        /\ \A n \in 1..2 : ~HasMarker(frame.output_lines[n])
        /\ \E n \in 1..2 : HasMilestone(frame.output_lines[n])
        /\ frame.result_text = "failed"

\* C21: the verifier is fed the job's record.  While the child of a job
\* runs, the job's scratch file temp_<user_id>.txt is an argument of its
\* command line or its standard input.
C21_VerifierFedRecord ==
    \A i \in Jobs :
        (running = i /\ frame.child = "running")
           => \/ \E k \in 1..Len(frame.cmd) : frame.cmd[k] = TempFile(Owner(i))
              \/ frame.stdin = TempFile(Owner(i))

\* C22: spawn failure yields Errored.  When Popen raises, the status written
\* to the row is not the status failed of a failure verdict, and the task
\* goes on to send the error message to the owner.
C22_SpawnFailureErrored ==
    [][\A i \in Jobs :
          (running = i /\ frame.step = "spawn" /\ frame'.step # "read")
             => /\ verifications'[i].status # "failed"
                /\ tasks'[i].pc = "await_error"]_vars

\* a calendar date written YYYY-MM-DD: four digits, two digits, two digits,
\* a month of the year and a day of that month
IsCalendarDate(s) ==
    /\ Len(s) = 10
    /\ s[5] = "-" /\ s[8] = "-"
    /\ \A k \in {1, 2, 3, 4, 6, 7, 9, 10} : IsDigit(s[k])
    /\ Number(SubSeq(s, 6, 7)) \in 1..12
    /\ Number(SubSeq(s, 9, 10)) \in
          1..DaysInMonth(Number(SubSeq(s, 1, 4)), Number(SubSeq(s, 6, 7)))
\* the '|'-separated fields of a line, trimmed
Fields(line) == [k \in 1..Len(Split(line, "|")) |-> Strip(Split(line, "|")[k])]
\* C23: parseLine result.  parse_veteran_line returns no record exactly
\* when the line has fewer than 4 fields, or its 4th field is not a calendar
\* date written YYYY-MM-DD, or it has a 5th field that is not one; otherwise
\* the record has the trimmed fields as firstName, lastName and birthDate,
\* the normalized branch, the organization of that branch (id 4070 for
\* Army), and as dischargeDate the 5th field, or 2025-01-01 without one.
C23_ParseLine ==
    (call.fn = "parse_veteran_line" /\ returned.done) =>
        LET fields == Fields(call.arg)
            none == \/ Len(fields) < 4
                    \/ ~IsCalendarDate(fields[4])
                    \/ (Len(fields) >= 5 /\ ~IsCalendarDate(fields[5]))
        IN  /\ (returned.value = <<>>) <=> none
            /\ returned.value # <<>> =>
                  /\ returned.value[1].firstName = fields[1]
                  /\ returned.value[1].lastName = fields[2]
                  /\ returned.value[1].birthDate = fields[4]
                  /\ returned.value[1].branch = match_branch(fields[3])
                  /\ returned.value[1].organization =
                        Organization(returned.value[1].branch)
                  /\ returned.value[1].branch = "Army" =>
                        returned.value[1].organization.id = 4070
                  /\ returned.value[1].dischargeDate =
                        IF Len(fields) >= 5 THEN fields[5] ELSE <<"2", "0", "2", "5", "-", "0", "1", "-", "0", "1">>

\* the service families with the word naming each and their Reserve and
\* National Guard branches
Families ==
    { [word |-> <<"A", "R", "M", "Y">>, reserve |-> "Army Reserve",
       national |-> "Army National Guard"],
      [word |-> <<"N", "A", "V", "Y">>, reserve |-> "Navy Reserve", national |-> "none"],
      [word |-> <<"A", "I", "R">>, reserve |-> "Air Force Reserve",
       national |-> "Air National Guard"],
      [word |-> <<"M", "A", "R", "I", "N", "E", " ", "C", "O", "R", "P", "S">>,
       reserve |-> "Marine Corps Reserve", national |-> "none"],
      [word |-> <<"C", "O", "A", "S", "T", " ", "G", "U", "A", "R", "D">>,
       reserve |-> "Coast Guard Reserve", national |-> "none"] }
FamilyWords ==
    { <<"A", "R", "M", "Y">>, <<"N", "A", "V", "Y">>, <<"A", "I", "R">>,
      <<"M", "A", "R", "I", "N", "E">>, <<"C", "O", "A", "S", "T">>,
      <<"S", "P", "A", "C", "E">> }
\* C24: branch normalization.  match_branch returns one of the 13 branch
\* names of BRANCH_ORG_MAP; the result is the same for the input in upper
\* case and for the input without a leading "US "; an input naming one
\* family and RESERVE (and not NATIONAL) gives that family's Reserve branch;
\* Army or Air with NATIONAL gives the National Guard of the family; an input
\* naming no family gives Army.
C24_BranchNormalization ==
    (call.fn = "match_branch" /\ returned.done) =>
        LET upper == Upper(call.arg)
            named == {f \in Families : Contains(upper, f.word)}
        IN  /\ \E k \in 1..Len(BRANCH_ORG_MAP) : BRANCH_ORG_MAP[k].branch = returned.value
            /\ Len(BRANCH_ORG_MAP) = 13
            /\ returned.value = match_branch(upper)
            /\ StartsWith(upper, <<"U", "S", " ">>) =>
                  returned.value = match_branch(SubSeq(call.arg, 4, Len(call.arg)))
            /\ \A f \in named :
                  /\ ( /\ named = {f}
                       /\ Contains(upper, <<"R", "E", "S", "E", "R", "V", "E">>)
                       /\ ~Contains(upper, <<"N", "A", "T", "I", "O", "N", "A", "L">>) )
                     => returned.value = f.reserve
                  /\ ( /\ named = {f}
                       /\ f.national # "none"
                       /\ Contains(upper, <<"N", "A", "T", "I", "O", "N", "A", "L">>) )
                     => returned.value = f.national
            /\ (\A w \in FamilyWords : ~Contains(upper, w)) => returned.value = "Army"

\* the lines of a text that are added: trimmed, not blank, not a comment,
\* and parsing to a record
RECURSIVE AddedLines(_)
AddedLines(lines) ==
    IF lines = <<>> THEN <<>>
    ELSE LET line == Strip(Head(lines))
         IN  IF line # <<>> /\ line[1] # "#" /\ parse_veteran_line(line) # <<>>
             THEN <<line>> \o AddedLines(Tail(lines))
             ELSE AddedLines(Tail(lines))
\* the lines of a file whose lines each end in "\n"
FileLines(file) ==
    IF file = <<>> THEN <<>>
    ELSE Split(SubSeq(file, 1, Len(file) - 1), "\n")
\* C25: bulk append.  A call of add_veteran_data_from_text leaves the lines
\* data.txt had in place, adds after them the lines of the text that are not
\* blank, not comments and parse to a record, in the order of the text, and
\* returns their number; lines that are not added do not keep later ones out.
C25_BulkAppend ==
    [][(call'.fn = "add_veteran_data_from_text") =>
          LET added == AddedLines(Split(call'.arg, "\n"))
          IN  /\ FileLines(data_file') = FileLines(data_file) \o added
              /\ data_file' # <<>> => data_file'[Len(data_file')] = "\n"
              /\ returned'.value = Len(added)]_vars
\* a text of a line with an invalid date followed by a record has been added
\* to a file that had one line: one line added, two lines stored
C25_Witness ==
    /\ call.fn = "add_veteran_data_from_text"
    /\ call.arg = Join(<<<<"A", "|", "B", "|", "A", "r", "m", "y", "|", "2", "0", "2", "0", "-", "0", "4", "-", "3", "1">>,
                         <<"A", "|", "B", "|", "A", "r", "m", "y", "|", "2", "0", "2", "0", "-", "0", "1", "-", "0", "5">>>>, <<"\n">>)
    /\ returned.value = 1
    /\ Len(FileLines(data_file)) = 2

\* the step is a Cancel: an open menu is closed with the answer Cancelled
\* and no row is created
CancelStep ==
    /\ \E m \in 1..Len(menus) : menus[m].open /\ ~menus'[m].open
    /\ reply' = "Cancelled"
    /\ Len(verifications') = Len(verifications)
C27_NoOrphanedEntry ==
    \A u \in Users :
        active_verifications[u] # NoEntry =>
           \/ handler.kind = "start_await" /\ handler.user = u
           \/ \E i \in Jobs :
                 /\ Owner(i) = u
                 /\ tasks[i].pc \in {"created", "await_progress", "running",
                                     "await_final", "await_error"}

\* C28: selection stability.  When the selection of index data_index in menu
\* m creates a job, the record of the job is the record the menu showed at
\* that index.
C28_SelectionStability ==
    [][\A m \in 1..Len(menus), data_index \in 0..9 :
          ( /\ start_verification(m, data_index)
            /\ Len(verifications') = Len(verifications) + 1 )
          => verifications'[Len(verifications')].veteran = menus[m].shown[data_index + 1]]_vars

\* C29: a job releases only its own entry.  When a step of the task of job
\* i deletes the entry of its owner, no later job of that owner exists (the
\* entry is the one made for job i); and the record the task reads from the
\* entry when it starts is the record of its own row.
C29_ReleasesOwnEntry ==
    [][\A i \in Jobs :
          /\ ( /\ running = i \/ tasks'[i] # tasks[i]
               /\ active_verifications[Owner(i)] # NoEntry
               /\ active_verifications'[Owner(i)] = NoEntry )
             => \A j \in Jobs : Owner(j) = Owner(i) => j <= i
          /\ (tasks[i].pc = "created" /\ tasks'[i].pc = "await_progress")
             => tasks'[i].veteran = verifications[i].veteran]_vars

\* C30: liveness with a well-behaved verifier.  A task that left the loop
\* on a marker line is never stuck in process.wait() with a verifier that
\* would exit but is blocked writing to a pipe the task does not read.
C30_NoPipeDeadlock ==
    \A i \in Jobs :
        (running = i /\ StoppedOnMarker /\ frame.child = "blocked")
           => frame.step # "hung"
====
